---------------------------- MODULE Spec2Model ----------------------------
(***************************************************************************)
(* Model of the move-conflict and combined-motion logic of btms-ui         *)
(* (src/btms_ui/widgets.py, src/btms_ui/util.py).                          *)
(*                                                                         *)
(* Positions are integers; an emitted overall fraction is kept as an exact *)
(* rational [num, den].  An optional argument (Python None or a value) is  *)
(* the empty sequence or a one-element sequence.                           *)
(***************************************************************************)
EXTENDS Integers, Sequences, FiniteSets, TLC

VARIABLES
    \* ---- QCombinedMoveStatus ------------------------------------------
    move_statuses,     \* the axis statuses the tracker was built with
    initials,          \* per-axis initial position
    targets,           \* per-axis target position
    currents,          \* per-axis current position
    percents,          \* per-axis fraction last reported
    finished_count,    \* self._finished_count
    wpc,               \* per-axis progress-callback thread: where it is
    wloc,              \* its locals current_deltas / initial_deltas
    fpc,               \* per-axis finished-callback thread: where it is
    floc,              \* its locals current_deltas / initial_deltas
    nwatch,            \* progress callbacks delivered so far
    status_changed,    \* last payload emitted on status_changed
    finished_moving,   \* number of finished_moving emissions
    \* ---- BtpsState, the consumed system state -------------------------
    open_request,          \* per source: shutter open request (1 open, 0 closed)
    destination_in_use,    \* the requested destination is held by another source
    data_valid,            \* the source-to-destination data is valid
    maintenance_mode,      \* the maintenance mode flag
    \* ---- BtmsSourceOverviewWidget -------------------------------------
    expert_mode,           \* self._expert_mode
    motion_progress_widget,\* value shown by the progress bar
    motion_progress_frame, \* whether the progress frame is visible
    motions,               \* set_with_movestatus calls issued so far
    nrequests,             \* move_request calls so far
    stop_log,              \* what the last click on the stop button did
    \* ---- BtmsMoveConflictWidget ---------------------------------------
    conflict,              \* self._conflict, the conflict dialog
    should_move,           \* answer of the last confirmation box
    resolve_threads,       \* the _resolve_all_thread threads now running
    nresolve,              \* _resolve_all_thread threads started so far
    gui_queue,             \* calls posted with run_in_gui_thread
    writes,                \* writes attempted on the system state
    failed_writes,         \* those of them that raised
    \* ---- prune_expert_issues applied to a given list -------------------
    prune_in,              \* the argument
    prune_out,             \* the results of applying it once and twice
    \* ---- observers of a running move, a construction, a refresh -------
    axis_result,           \* per axis: how its MoveStatus completed, if it did
    progress_log,          \* values set on the progress bar since the move
    ctor,                  \* a QCombinedMoveStatus construction under way
    check_out,             \* what the dialog displayed after each refresh
    \* ---- the environment, a superseded move, a homing thread -----------
    nexternal,             \* changes of the system state made by others
    superseded,            \* a newer move was issued; the tracker is the old one
    homing                 \* a HomingThread, its motor and what it did

trackerVars == <<move_statuses, initials, targets, currents, percents,
                 finished_count, wpc, wloc, fpc, floc, nwatch,
                 status_changed, finished_moving>>

stateVars == <<open_request, destination_in_use, data_valid,
               maintenance_mode>>

overviewVars == <<expert_mode, motion_progress_widget, motion_progress_frame,
                  motions, nrequests, stop_log>>

conflictVars == <<conflict, should_move, resolve_threads, nresolve, gui_queue,
                  writes, failed_writes>>

pruneVars == <<prune_in, prune_out>>

auxVars == <<axis_result, progress_log, ctor, check_out>>

extVars == <<nexternal, superseded, homing>>

vars == <<trackerVars, stateVars, overviewVars, conflictVars, pruneVars,
          auxVars, extVars>>

---------------------------------------------------------------------------
\* Bounds of the model

\* progress callbacks delivered to one tracker under concurrent delivery
MaxWatch == 2
\* progress callbacks delivered in the sequential scenario
MaxWatchSeq == 3

\* move_request calls made
MaxRequests == 1
\* _resolve_all threads started
MaxResolve == 1
\* moves issued before the stop button is clicked
MaxMoves == 2
\* length of the list given to prune_expert_issues
MaxLen == 2
\* progress callbacks delivered to the tracker of a move that may be stopped
MaxWatchRun == 2
\* length of the list given to QCombinedMoveStatus
MaxStatuses == 3
\* refreshes of an open conflict dialog
MaxRefresh == 2
\* progress callbacks delivered while the finished callbacks race
MaxWatchLive == 1
\* environment changes between a conflict check and the click that uses it
MaxExternal == 2
\* cancel requests on the homing screen during one homing run
MaxCancel == 1

\* axis counts a tracker is built with under concurrent delivery
AxisCounts == {1, 2}
\* positions an axis reports under concurrent delivery
Positions == {0, 1}
\* fractions an axis reports
Fractions == {1}

AxisNames == <<"linear", "rotary", "goniometer">>

\* Scenario D of the specification: a 3-axis move with targets 0,
\* initial positions 100, 50, 10 and current positions 50, 50, 10
ScenarioInitial == <<100, 50, 10>>
ScenarioCurrent == <<50, 50, 10>>
ScenarioPositions(i) == {0, ScenarioInitial[i], ScenarioCurrent[i]}

---------------------------------------------------------------------------
\* Optional values and exact fractions

None == <<>>
Some(v) == <<v>>
Opt(S) == {None} \cup {Some(v) : v \in S}

Abs(x) == IF x < 0 THEN -x ELSE x

RECURSIVE SumSeq(_)
SumSeq(s) == IF Len(s) = 0 THEN 0 ELSE Head(s) + SumSeq(Tail(s))

Rat(a, b) == [num |-> a, den |-> b]
RatOne == Rat(1, 1)
RatLeq(q, r) == q.num * r.den <= r.num * q.den
RatEq(q, r) == q.num * r.den = r.num * q.den

\* the comparison threshold 1e-6 of widgets.py, as its inverse
EpsInv == 1000000

NpClipMutNoClip(q, lo, hi) == q

\* np.clip(q, lo, hi) for a fraction with a positive denominator
NpClip(q, lo, hi) ==
    IF q.num < lo * q.den THEN Rat(lo, 1)
    ELSE IF q.num > hi * q.den THEN Rat(hi, 1)
    ELSE q

OverallMutUnweighted(current_sum, final_sum) ==
    LET q == NpClip(Rat(current_sum, final_sum), 0, 1)
    IN  Rat(q.num, q.den)

\* overall = 1.0 - np.clip(current_sum / final_sum, 0, 1), final_sum > 0
Overall(current_sum, final_sum) ==
    LET q == NpClip(Rat(current_sum, final_sum), 0, 1)
    IN  Rat(q.den - q.num, q.den)

AtThresholdMutAlways(q) == q.den > 0

\* overall >= (1.0 - 1e-6)
AtThreshold(q) == q.num * EpsInv >= (EpsInv - 1) * q.den

---------------------------------------------------------------------------
\* QCombinedMoveStatus

NAxes == Len(move_statuses)
Axes == 1..NAxes

\* current_deltas property: |target - current| per axis (the tuples never
\* hold None, so the comprehension's filter keeps every axis)
CurrentDeltas(cur, tgt) == [k \in 1..Len(cur) |-> Abs(tgt[k] - cur[k])]

\* initial_deltas property: |target - initial| per axis
InitialDeltas(ini, tgt) == [k \in 1..Len(ini) |-> Abs(tgt[k] - ini[k])]

SetIfGivenMutAll(tuple, index, arg) ==
    IF arg = None THEN tuple ELSE [k \in DOMAIN tuple |-> arg[1]]

\* "if arg is not None: lst[index] = arg"
SetIfGiven(tuple, index, arg) ==
    IF arg = None THEN tuple ELSE [tuple EXCEPT ![index] = arg[1]]

NoLocals == [current_deltas |-> <<>>, initial_deltas |-> <<>>]
NoEmission == [by |-> "none", overall |-> Rat(0, 1),
               current_deltas |-> <<>>, initial_deltas |-> <<>>]

\* state of a tracker right after __init__ over n statuses
TrackerInit(n) ==
    /\ move_statuses = SubSeq(AxisNames, 1, n)
    /\ initials = [k \in 1..n |-> 0]
    /\ targets = [k \in 1..n |-> 0]
    /\ currents = [k \in 1..n |-> 0]
    /\ percents = [k \in 1..n |-> 0]
    /\ finished_count = 0
    /\ wpc = [k \in 1..n |-> "idle"]
    /\ wloc = [k \in 1..n |-> NoLocals]
    /\ fpc = [k \in 1..n |-> "pending"]
    /\ floc = [k \in 1..n |-> NoLocals]
    /\ nwatch = 0
    /\ status_changed = NoEmission
    /\ finished_moving = 0

\* _watch_callback, the block under self.lock
WatchLocked(index, fraction, initial, current, target) ==
    /\ wpc[index] = "idle"
    /\ nwatch' = nwatch + 1
    /\ IF finished_count = Len(move_statuses)
       THEN UNCHANGED <<initials, targets, currents, percents, wpc, wloc>>
       ELSE /\ initials' = SetIfGiven(initials, index, initial)
            /\ targets' = SetIfGiven(targets, index, target)
            /\ currents' = SetIfGiven(currents, index, current)
            /\ percents' = SetIfGiven(percents, index, fraction)
            /\ wloc' = [wloc EXCEPT ![index] =
                          [current_deltas |-> CurrentDeltas(currents', targets'),
                           initial_deltas |-> InitialDeltas(initials', targets')]]
            /\ wpc' = [wpc EXCEPT ![index] = "computed"]
    /\ UNCHANGED <<move_statuses, finished_count, fpc, floc,
                   status_changed, finished_moving>>

\* _watch_callback after the lock is released: the sums, the clip and
\* status_changed.emit; a zero final_sum raises ZeroDivisionError, which is
\* caught, and nothing is emitted
WatchEmitStatus(index) ==
    /\ wpc[index] = "computed"
    /\ LET cd == wloc[index].current_deltas
           id == wloc[index].initial_deltas
       IN  IF Len(cd) = 0 \/ Len(id) = 0 \/ SumSeq(id) = 0
           THEN /\ wpc' = [wpc EXCEPT ![index] = "idle"]
                /\ UNCHANGED status_changed
           ELSE LET overall == Overall(SumSeq(cd), SumSeq(id))
                IN  /\ status_changed' = [by |-> "watch", overall |-> overall,
                                          current_deltas |-> cd,
                                          initial_deltas |-> id]
                    /\ wpc' = [wpc EXCEPT ![index] =
                                 IF AtThreshold(overall) THEN "emit_finished"
                                 ELSE "idle"]
    /\ wloc' = [wloc EXCEPT ![index] = NoLocals]
    /\ UNCHANGED <<move_statuses, initials, targets, currents, percents,
                   finished_count, fpc, floc, nwatch, finished_moving>>

\* _watch_callback: finished_moving.emit() when overall >= 1 - 1e-6
WatchEmitFinished(index) ==
    /\ wpc[index] = "emit_finished"
    /\ finished_moving' = finished_moving + 1
    /\ wpc' = [wpc EXCEPT ![index] = "idle"]
    /\ UNCHANGED <<move_statuses, initials, targets, currents, percents,
                   finished_count, wloc, fpc, floc, nwatch, status_changed>>

FinishedLockedMutLosesIncrement(index) ==
    /\ fpc[index] = "pending"
    /\ finished_count' = IF \E k \in Axes : fpc[k] = "test"
                         THEN finished_count ELSE finished_count + 1
    /\ floc' = [floc EXCEPT ![index] =
                  [current_deltas |-> CurrentDeltas(currents, targets),
                   initial_deltas |-> InitialDeltas(initials, targets)]]
    /\ fpc' = [fpc EXCEPT ![index] = "test"]
    /\ UNCHANGED <<move_statuses, initials, targets, currents, percents,
                   wpc, wloc, nwatch, status_changed, finished_moving>>

\* _finished_callback, the block under self.lock
FinishedLocked(index) ==
    /\ fpc[index] = "pending"
    /\ finished_count' = finished_count + 1
    /\ floc' = [floc EXCEPT ![index] =
                  [current_deltas |-> CurrentDeltas(currents, targets),
                   initial_deltas |-> InitialDeltas(initials, targets)]]
    /\ fpc' = [fpc EXCEPT ![index] = "test"]
    /\ UNCHANGED <<move_statuses, initials, targets, currents, percents,
                   wpc, wloc, nwatch, status_changed, finished_moving>>

\* _finished_callback: the test of self._finished_count, read without the lock
FinishedTest(index) ==
    /\ fpc[index] = "test"
    /\ fpc' = [fpc EXCEPT ![index] =
                 IF finished_count = Len(move_statuses) THEN "emit_status"
                 ELSE "done"]
    /\ floc' = IF finished_count = Len(move_statuses) THEN floc
               ELSE [floc EXCEPT ![index] = NoLocals]
    /\ UNCHANGED <<move_statuses, initials, targets, currents, percents,
                   finished_count, wpc, wloc, nwatch, status_changed,
                   finished_moving>>

\* _finished_callback: status_changed.emit(1.0, ...)
FinishedEmitStatus(index) ==
    /\ fpc[index] = "emit_status"
    /\ status_changed' = [by |-> "finished", overall |-> RatOne,
                          current_deltas |-> floc[index].current_deltas,
                          initial_deltas |-> floc[index].initial_deltas]
    /\ fpc' = [fpc EXCEPT ![index] = "emit_finished"]
    /\ floc' = [floc EXCEPT ![index] = NoLocals]
    /\ UNCHANGED <<move_statuses, initials, targets, currents, percents,
                   finished_count, wpc, wloc, nwatch, finished_moving>>

\* _finished_callback: finished_moving.emit()
FinishedEmitFinished(index) ==
    /\ fpc[index] = "emit_finished"
    /\ finished_moving' = finished_moving + 1
    /\ fpc' = [fpc EXCEPT ![index] = "done"]
    /\ UNCHANGED <<move_statuses, initials, targets, currents, percents,
                   finished_count, wpc, wloc, floc, nwatch, status_changed>>

---------------------------------------------------------------------------
\* Topology and move issues (btms_config)

Sources == {1, 2, 3}
Destinations == {1, 2}

\* the source of the overview widget under study
source_position == 1

\* sources whose beam path a move of `source` to `dest` crosses
CrossedSources(source, dest) == IF dest = 1 THEN <<2>> ELSE <<2, 3>>

Issue(kind, crosses_source) == [kind |-> kind, crosses_source |-> crosses_source]

ExpertPrunable == {"PositionInvalidError", "MaintenanceModeActiveError"}

AllIssues ==
    {Issue("MovingActiveSource", 0), Issue("DestinationInUseError", 0),
     Issue("PositionInvalidError", 0), Issue("MaintenanceModeActiveError", 0),
     Issue("MoveError", 0)}
    \cup {Issue("PathCrossedError", s) : s \in Sources \ {source_position}}

RECURSIVE CrossedIssues(_)
CrossedIssues(others) ==
    IF others = <<>> THEN <<>>
    ELSE (IF open_request[Head(others)] = 1
          THEN <<Issue("PathCrossedError", Head(others))>> ELSE <<>>)
         \o CrossedIssues(Tail(others))

\* BtpsSourceStatus.check_move_all(dest): the issues of the current state
CheckMoveAll(source, dest) ==
    (IF open_request[source] = 1
     THEN <<Issue("MovingActiveSource", 0)>> ELSE <<>>)
    \o CrossedIssues(CrossedSources(source, dest))
    \o (IF destination_in_use
        THEN <<Issue("DestinationInUseError", 0)>> ELSE <<>>)
    \o (IF ~data_valid THEN <<Issue("PositionInvalidError", 0)>> ELSE <<>>)
    \o (IF maintenance_mode
        THEN <<Issue("MaintenanceModeActiveError", 0)>> ELSE <<>>)

---------------------------------------------------------------------------
\* util.prune_expert_issues

RECURSIVE PruneMutDropsInUse(_)
PruneMutDropsInUse(issues) ==
    IF issues = <<>> THEN <<>>
    ELSE (IF Head(issues).kind \in ExpertPrunable \cup {"DestinationInUseError"}
          THEN <<>> ELSE <<Head(issues)>>)
         \o PruneMutDropsInUse(Tail(issues))

RECURSIVE PruneMutDropsActive(_)
PruneMutDropsActive(issues) ==
    IF issues = <<>> THEN <<>>
    ELSE (IF Head(issues).kind \in ExpertPrunable \cup {"MovingActiveSource"}
          THEN <<>> ELSE <<Head(issues)>>)
         \o PruneMutDropsActive(Tail(issues))

RECURSIVE PruneExpertIssues(_)
PruneExpertIssues(issues) ==
    IF issues = <<>> THEN <<>>
    ELSE (IF Head(issues).kind \in ExpertPrunable
          THEN <<>> ELSE <<Head(issues)>>)
         \o PruneExpertIssues(Tail(issues))

---------------------------------------------------------------------------
\* BtmsMoveConflictWidget

\* can_fix_issue
CanFixIssue(c) == c.kind \in {"MovingActiveSource", "PathCrossedError"}

Put(source, value) == [source |-> source, signal |-> "open_request",
                       value |-> value]

FixIssueMutClosesOwn(c) ==
    IF c.kind \in {"MovingActiveSource", "PathCrossedError"}
    THEN <<Put(source_position, 0)>>
    ELSE <<>>

FixIssueMutOpens(c) ==
    IF c.kind = "MovingActiveSource" THEN <<Put(source_position, 1)>>
    ELSE IF c.kind = "PathCrossedError" THEN <<Put(c.crosses_source, 0)>>
    ELSE <<>>

\* fix_issue: the writes it makes for one issue
FixIssue(c) ==
    IF c.kind = "MovingActiveSource" THEN <<Put(source_position, 0)>>
    ELSE IF c.kind = "PathCrossedError" THEN <<Put(c.crosses_source, 0)>>
    ELSE <<>>

\* get_resolution_explanation
ResolutionExplanation(c) ==
    IF c.kind = "MovingActiveSource"
    THEN Some([close_shutter |-> source_position])
    ELSE IF c.kind = "PathCrossedError"
    THEN Some([close_shutter |-> c.crosses_source])
    ELSE None

RECURSIVE Resolutions(_)
Resolutions(issues) ==
    IF issues = <<>> THEN <<>>
    ELSE ResolutionExplanation(Head(issues)) \o Resolutions(Tail(issues))

NoConflict == [gen |-> 0, shown |-> FALSE, dest |-> 0, issues |-> <<>>,
               conflicts_list |-> <<>>, resolution_list |-> <<>>,
               apply_enabled |-> FALSE, confirming |-> FALSE]

UpdateChecksMutNoClear(w) ==
    LET issues == CheckMoveAll(source_position, w.dest)
    IN  [w EXCEPT !.issues = issues,
                  !.conflicts_list =
                      @ \o [k \in 1..Len(issues) |-> issues[k].kind],
                  !.resolution_list = @ \o Resolutions(issues),
                  !.apply_enabled =
                      \E k \in 1..Len(issues) : CanFixIssue(issues[k])]

\* _update_checks on dialog w
UpdateChecks(w) ==
    LET issues == CheckMoveAll(source_position, w.dest)
    IN  [w EXCEPT !.issues = issues,
                  !.conflicts_list = [k \in 1..Len(issues) |-> issues[k].kind],
                  !.resolution_list = Resolutions(issues),
                  !.apply_enabled = \E k \in 1..Len(issues) : CanFixIssue(issues[k])]

\* BtmsMoveConflictWidget(parent, state, source, dest): __init__ and show()
NewConflict(gen, dest) ==
    UpdateChecks([NoConflict EXCEPT !.gen = gen, !.shown = TRUE, !.dest = dest])

NoStop == [running |-> FALSE, conn |-> 0, idx |-> 0, attempted |-> <<>>,
           failed |-> <<>>, logged |-> <<>>, propagated |-> FALSE]

\* the state before any request, with no dialog and no move
OverviewInit ==
    /\ motion_progress_widget = 0
    /\ motion_progress_frame = FALSE
    /\ motions = <<>>
    /\ nrequests = 0
    /\ stop_log = NoStop
    /\ conflict = NoConflict
    /\ should_move = "none"
    /\ resolve_threads = <<>>
    /\ nresolve = 0
    /\ gui_queue = <<>>
    /\ writes = {}
    /\ failed_writes = {}

StateQuiet ==
    /\ open_request = [s \in Sources |-> 0]
    /\ destination_in_use = FALSE
    /\ data_valid = TRUE
    /\ maintenance_mode = FALSE

PruneIdle == prune_in = <<>> /\ prune_out = <<>>

NoCtor == [pc |-> "none", arg |-> <<>>, idx |-> 0, watchers |-> <<>>,
           callbacks |-> <<>>]

NoHoming == [kind |-> "none", pc |-> "idle", i |-> 0, forward |-> TRUE,
             lin_pos |-> <<>>, st |-> "none", stopper |-> FALSE,
             success |-> FALSE, needs_calib |-> FALSE, calibs |-> 0,
             homes |-> 0, finished |-> 0, dev_stops |-> 0, cancels |-> 0]

ExtIdle ==
    /\ nexternal = 0
    /\ superseded = FALSE
    /\ homing = NoHoming

AuxIdle ==
    /\ axis_result = <<>>
    /\ progress_log = <<>>
    /\ ctor = NoCtor
    /\ check_out = <<>>

\* QCombinedMoveStatus(list(status)) assigned to self._move_status
TrackerNew(n) ==
    /\ move_statuses' = SubSeq(AxisNames, 1, n)
    /\ initials' = [k \in 1..n |-> 0]
    /\ targets' = [k \in 1..n |-> 0]
    /\ currents' = [k \in 1..n |-> 0]
    /\ percents' = [k \in 1..n |-> 0]
    /\ finished_count' = 0
    /\ wpc' = [k \in 1..n |-> "idle"]
    /\ wloc' = [k \in 1..n |-> NoLocals]
    /\ fpc' = [k \in 1..n |-> "pending"]
    /\ floc' = [k \in 1..n |-> NoLocals]
    /\ nwatch' = 0
    /\ status_changed' = NoEmission
    /\ finished_moving' = 0

\* _perform_move(target); any_done: some axis status is done already
PerformMove(target, any_done) ==
    /\ motion_progress_widget' = 0
    /\ motions' = Append(motions, [target |-> target, check |-> FALSE])
    /\ TrackerNew(Len(AxisNames))
    /\ motion_progress_frame' = ~any_done

MoveRequestMutIgnoresIssues(target, any_done) ==
    /\ ~conflict.confirming
    /\ nrequests' = nrequests + 1
    /\ PerformMove(target, any_done)
    /\ UNCHANGED <<stateVars, expert_mode, stop_log, conflict, should_move,
                   resolve_threads, nresolve, gui_queue, writes,
                   failed_writes, pruneVars, auxVars, extVars>>

\* move_request(target)
MoveRequest(target, any_done) ==
    /\ ~conflict.confirming
    /\ nrequests' = nrequests + 1
    /\ LET checked == CheckMoveAll(source_position, target)
           issues == IF expert_mode THEN PruneExpertIssues(checked)
                     ELSE checked
       IN  IF issues # <<>>
           THEN /\ motion_progress_widget' = 0
                /\ conflict' = NewConflict(conflict.gen + 1, target)
                /\ UNCHANGED <<motions, motion_progress_frame, trackerVars>>
           ELSE /\ PerformMove(target, any_done)
                /\ UNCHANGED conflict
    /\ UNCHANGED <<stateVars, expert_mode, stop_log, should_move,
                   resolve_threads, nresolve, gui_queue, writes,
                   failed_writes, pruneVars, auxVars, extVars>>

\* _move up to the confirmation box: moves at once when no conflict is listed
MoveButton(any_done) ==
    /\ conflict.shown /\ ~conflict.confirming
    /\ IF conflict.conflicts_list # <<>>
       THEN /\ conflict' = [conflict EXCEPT !.confirming = TRUE]
            /\ UNCHANGED <<motions, motion_progress_widget,
                           motion_progress_frame, trackerVars>>
       ELSE /\ PerformMove(conflict.dest, any_done)
            /\ conflict' = [conflict EXCEPT !.shown = FALSE]
    /\ UNCHANGED <<stateVars, expert_mode, nrequests, stop_log, should_move,
                   resolve_threads, nresolve, gui_queue, writes,
                   failed_writes, pruneVars, auxVars, extVars>>

ConfirmAnswerMutAlwaysMoves(answer, any_done) ==
    /\ conflict.confirming
    /\ should_move' = answer
    /\ PerformMove(conflict.dest, any_done)
    /\ conflict' = [conflict EXCEPT !.confirming = FALSE, !.shown = FALSE]
    /\ UNCHANGED <<stateVars, expert_mode, nrequests, stop_log,
                   resolve_threads, nresolve, gui_queue, writes,
                   failed_writes, pruneVars, auxVars, extVars>>

\* _move from the answer of the confirmation box on
ConfirmAnswer(answer, any_done) ==
    /\ conflict.confirming
    /\ should_move' = answer
    /\ IF answer # "Yes"
       THEN /\ conflict' = [conflict EXCEPT !.confirming = FALSE]
            /\ UNCHANGED <<motions, motion_progress_widget,
                           motion_progress_frame, trackerVars>>
       ELSE /\ PerformMove(conflict.dest, any_done)
            /\ conflict' = [conflict EXCEPT !.confirming = FALSE,
                                            !.shown = FALSE]
    /\ UNCHANGED <<stateVars, expert_mode, nrequests, stop_log,
                   resolve_threads, nresolve, gui_queue, writes,
                   failed_writes, pruneVars, auxVars, extVars>>

\* update_button.clicked -> _update_checks
UpdateButton ==
    /\ conflict.shown /\ ~conflict.confirming
    /\ conflict' = UpdateChecks(conflict)
    /\ UNCHANGED <<trackerVars, stateVars, overviewVars, should_move,
                   resolve_threads, nresolve, gui_queue, writes,
                   failed_writes, pruneVars, auxVars, extVars>>

\* _resolve_all: start a thread running _resolve_all_thread
ResolveAll ==
    /\ conflict.shown /\ ~conflict.confirming /\ conflict.apply_enabled
    /\ resolve_threads' = Append(resolve_threads,
          [gen |-> conflict.gen, issues |-> conflict.issues, idx |-> 1])
    /\ nresolve' = nresolve + 1
    /\ UNCHANGED <<trackerVars, stateVars, overviewVars, conflict,
                   should_move, gui_queue, writes, failed_writes, pruneVars, auxVars,
                   extVars>>

\* resolve_threads without its thread t: the thread has ended
Without(threads, t) ==
    [k \in 1..(Len(threads) - 1) |-> IF k < t THEN threads[k] ELSE threads[k + 1]]

\* _resolve_all_thread: one turn of "for issue in self.issues:
\* self.fix_issue(issue)"; ok is false when the write raises, which ends
\* the thread
ResolveFix(t, ok) ==
    LET th == resolve_threads[t]
        puts == FixIssue(th.issues[th.idx])
    IN  /\ th.idx <= Len(th.issues)
        /\ IF puts = <<>>
           THEN /\ resolve_threads' =
                      [resolve_threads EXCEPT ![t].idx = th.idx + 1]
                /\ UNCHANGED <<writes, failed_writes, open_request>>
           ELSE /\ writes' = writes \cup {puts[1]}
                /\ IF ok
                   THEN /\ open_request' = [open_request EXCEPT
                                              ![puts[1].source] = puts[1].value]
                        /\ resolve_threads' =
                              [resolve_threads EXCEPT ![t].idx = th.idx + 1]
                        /\ UNCHANGED failed_writes
                   ELSE /\ failed_writes' = failed_writes \cup {puts[1]}
                        /\ UNCHANGED open_request
                        /\ resolve_threads' = Without(resolve_threads, t)
        /\ UNCHANGED <<trackerVars, destination_in_use, data_valid,
                       maintenance_mode, overviewVars, conflict,
                       should_move, nresolve, gui_queue, pruneVars, auxVars,
                       extVars>>

\* _resolve_all_thread after the loop: time.sleep(1.0), then
\* util.run_in_gui_thread(self._update_checks); the thread ends
ResolveSettle(t) ==
    LET th == resolve_threads[t]
    IN  /\ th.idx > Len(th.issues)
        /\ resolve_threads' = Without(resolve_threads, t)
        /\ gui_queue' = Append(gui_queue, th.gen)
        /\ UNCHANGED <<trackerVars, stateVars, overviewVars, conflict,
                       should_move, nresolve, writes, failed_writes, pruneVars, auxVars,
                       extVars>>

\* the GUI thread runs a posted _update_checks on the dialog that posted it
RunQueued ==
    /\ gui_queue # <<>>
    /\ gui_queue' = Tail(gui_queue)
    /\ conflict' = IF Head(gui_queue) = conflict.gen
                   THEN UpdateChecks(conflict) ELSE conflict
    /\ UNCHANGED <<trackerVars, stateVars, overviewVars, should_move,
                   resolve_threads, nresolve, writes, failed_writes, pruneVars, auxVars,
                   extVars>>

---------------------------------------------------------------------------
\* stop_all of _perform_move, connected to motion_stop_button.clicked once
\* per move issued

StopAttemptMutNoTry(log, device, ok) ==
    IF ok
    THEN [log EXCEPT !.attempted = Append(@, device), !.idx = @ + 1]
    ELSE [log EXCEPT !.attempted = Append(@, device),
                     !.failed = Append(@, device),
                     !.propagated = TRUE, !.running = FALSE]

\* one turn of "for st in status: try: st.device.stop() except Exception:
\* logger.exception(...)"; ok is false when stop() raises
StopAttempt(log, device, ok) ==
    IF ok
    THEN [log EXCEPT !.attempted = Append(@, device), !.idx = @ + 1]
    ELSE [log EXCEPT !.attempted = Append(@, device),
                     !.failed = Append(@, device),
                     !.logged = Append(@, device), !.idx = @ + 1]

\* a click on the stop button: the connected stop_all closures start
StopClick ==
    /\ motion_progress_frame /\ ~stop_log.running
    /\ Len(motions) >= 1
    /\ stop_log' = [NoStop EXCEPT !.running = TRUE, !.conn = 1, !.idx = 1]
    /\ UNCHANGED <<trackerVars, stateVars, expert_mode, motion_progress_widget,
                   motion_progress_frame, motions, nrequests, conflictVars,
                   pruneVars, auxVars, extVars>>

\* the next stop attempt, or the end of a closure's loop
StopStep(ok) ==
    /\ stop_log.running
    /\ IF stop_log.idx <= Len(AxisNames)
       THEN stop_log' = StopAttempt(stop_log, AxisNames[stop_log.idx], ok)
       ELSE IF stop_log.conn < Len(motions)
       THEN stop_log' = [stop_log EXCEPT !.conn = @ + 1, !.idx = 1]
       ELSE stop_log' = [stop_log EXCEPT !.running = FALSE]
    /\ UNCHANGED <<trackerVars, stateVars, expert_mode, motion_progress_widget,
                   motion_progress_frame, motions, nrequests, conflictVars,
                   pruneVars, auxVars, extVars>>

---------------------------------------------------------------------------
\* Spec: one tracker, callbacks delivered concurrently (one progress thread
\* and one finished callback per axis)

Init ==
    /\ \E n \in AxisCounts : TrackerInit(n)
    /\ StateQuiet /\ expert_mode = FALSE /\ OverviewInit /\ PruneIdle /\ AuxIdle
    /\ ExtIdle

Watch ==
    \E index \in Axes, fraction \in Opt(Fractions), initial \in Opt(Positions),
       current \in Opt(Positions), target \in Opt(Positions) :
        /\ nwatch < MaxWatch
        /\ WatchLocked(index, fraction, initial, current, target)
        /\ UNCHANGED <<stateVars, overviewVars, conflictVars, pruneVars, auxVars,
                       extVars>>

WatchStatus ==
    (\E index \in Axes : WatchEmitStatus(index)) /\ UNCHANGED <<stateVars, overviewVars, conflictVars, pruneVars, auxVars,
                                                                extVars>>
WatchFinished ==
    (\E index \in Axes : WatchEmitFinished(index)) /\ UNCHANGED <<stateVars, overviewVars, conflictVars, pruneVars, auxVars,
                                                                  extVars>>
FinLocked ==
    (\E index \in Axes : FinishedLocked(index)) /\ UNCHANGED <<stateVars, overviewVars, conflictVars, pruneVars, auxVars,
                                                               extVars>>
FinTest ==
    (\E index \in Axes : FinishedTest(index)) /\ UNCHANGED <<stateVars, overviewVars, conflictVars, pruneVars, auxVars,
                                                             extVars>>
FinStatus ==
    (\E index \in Axes : FinishedEmitStatus(index)) /\ UNCHANGED <<stateVars, overviewVars, conflictVars, pruneVars, auxVars,
                                                                   extVars>>
FinFinished ==
    (\E index \in Axes : FinishedEmitFinished(index)) /\ UNCHANGED <<stateVars, overviewVars, conflictVars, pruneVars, auxVars,
                                                                     extVars>>

Next ==
    \/ Watch
    \/ WatchStatus
    \/ WatchFinished
    \/ FinLocked
    \/ FinTest
    \/ FinStatus
    \/ FinFinished

Spec == Init /\ [][Next]_vars

---------------------------------------------------------------------------
\* SpecSeq: the 3-axis tracker of scenario D, callbacks delivered one at a
\* time (a callback starts only when no other is running)

NoCallbackRunning ==
    /\ \A k \in Axes : wpc[k] = "idle"
    /\ \A k \in Axes : fpc[k] \in {"pending", "done"}

InitSeq ==
    /\ TrackerInit(Len(ScenarioInitial))
    /\ StateQuiet /\ expert_mode = FALSE /\ OverviewInit /\ PruneIdle /\ AuxIdle
    /\ ExtIdle

WatchSeq ==
    \E index \in Axes :
    \E initial \in Opt(ScenarioPositions(index)),
       current \in Opt(ScenarioPositions(index)),
       target \in Opt(ScenarioPositions(index)) :
        /\ nwatch < MaxWatchSeq
        /\ NoCallbackRunning
        /\ WatchLocked(index, None, initial, current, target)
        /\ UNCHANGED <<stateVars, overviewVars, conflictVars, pruneVars, auxVars,
                       extVars>>

FinLockedSeq ==
    /\ \E index \in Axes : NoCallbackRunning /\ FinishedLocked(index)
    /\ UNCHANGED <<stateVars, overviewVars, conflictVars, pruneVars, auxVars,
                   extVars>>

NextSeq ==
    \/ WatchSeq
    \/ WatchStatus
    \/ WatchFinished
    \/ FinLockedSeq
    \/ FinTest
    \/ FinStatus
    \/ FinFinished

SpecSeq == InitSeq /\ [][NextSeq]_vars

---------------------------------------------------------------------------
\* SpecMove: one overview widget, its conflict dialog and the resolution
\* threads, started in every system state; the system state then changes
\* only through the writes of the resolution threads

InitMove ==
    /\ TrackerInit(0)
    /\ open_request \in [Sources -> {0, 1}]
    /\ destination_in_use \in BOOLEAN
    /\ data_valid \in BOOLEAN
    /\ maintenance_mode \in BOOLEAN
    /\ expert_mode \in BOOLEAN
    /\ OverviewInit
    /\ PruneIdle /\ AuxIdle
    /\ ExtIdle

Request ==
    \E target \in Destinations, any_done \in BOOLEAN :
        nrequests < MaxRequests /\ MoveRequest(target, any_done)

Move == \E any_done \in BOOLEAN : MoveButton(any_done)

Confirm ==
    \E answer \in {"Yes", "No"}, any_done \in BOOLEAN :
        ConfirmAnswer(answer, any_done)

Resolve == nresolve < MaxResolve /\ ResolveAll

Fix == \E t \in 1..Len(resolve_threads), ok \in BOOLEAN : ResolveFix(t, ok)

Settle == \E t \in 1..Len(resolve_threads) : ResolveSettle(t)

NextMove ==
    \/ Request
    \/ Move
    \/ Confirm
    \/ UpdateButton
    \/ Resolve
    \/ Fix
    \/ Settle
    \/ RunQueued

SpecMove == InitMove /\ [][NextMove]_vars

---------------------------------------------------------------------------
\* SpecStop: an overview widget that has issued some moves; the stop button
\* is clicked and every stop attempt may raise

InitStop ==
    /\ TrackerInit(Len(AxisNames))
    /\ StateQuiet /\ expert_mode = FALSE /\ PruneIdle /\ AuxIdle
    /\ motion_progress_widget = 0
    /\ motion_progress_frame = TRUE
    /\ \E k \in 1..MaxMoves, target \in Destinations :
          motions = [m \in 1..k |-> [target |-> target, check |-> FALSE]]
    /\ nrequests = Len(motions)
    /\ stop_log = NoStop
    /\ conflict = NoConflict
    /\ should_move = "none"
    /\ resolve_threads = <<>>
    /\ nresolve = 0
    /\ gui_queue = <<>>
    /\ writes = {}
    /\ failed_writes = {}
    /\ ExtIdle

Stop == \E ok \in BOOLEAN : StopStep(ok)

NextStop ==
    \/ StopClick
    \/ Stop

SpecStop == InitStop /\ [][NextStop]_vars

---------------------------------------------------------------------------
\* SpecPrune: prune_expert_issues applied to every list of up to MaxLen
\* issues, once and then to its own result

RECURSIVE SeqsUpTo(_, _)
SeqsUpTo(S, n) ==
    IF n = 0 THEN {<<>>}
    ELSE SeqsUpTo(S, n - 1)
         \cup {Append(q, x) : q \in {r \in SeqsUpTo(S, n - 1) : Len(r) = n - 1},
                              x \in S}

InitPrune ==
    /\ TrackerInit(0)
    /\ StateQuiet /\ expert_mode = TRUE /\ OverviewInit
    /\ prune_in \in SeqsUpTo(AllIssues, MaxLen)
    /\ prune_out = <<>>
    /\ AuxIdle
    /\ ExtIdle

PruneOnce ==
    /\ prune_out = <<>>
    /\ prune_out' = <<PruneExpertIssues(prune_in)>>
    /\ UNCHANGED <<trackerVars, stateVars, overviewVars, conflictVars, prune_in,
                   auxVars, extVars>>

PruneAgain ==
    /\ Len(prune_out) = 1
    /\ prune_out' = Append(prune_out, PruneExpertIssues(prune_out[1]))
    /\ UNCHANGED <<trackerVars, stateVars, overviewVars, conflictVars, prune_in,
                   auxVars, extVars>>

NextPrune ==
    \/ PruneOnce
    \/ PruneAgain

SpecPrune == InitPrune /\ [][NextPrune]_vars

---------------------------------------------------------------------------
\* SpecCancel: an overview widget right after _perform_move has issued one
\* move; the axes report progress and completion (with success or with an
\* error) one callback at a time, and the stop button may be clicked.  The
\* closures update and finished_moving of _perform_move are connected to
\* the tracker's signals; their run is modelled at the emission.

\* int(overall_percent * 100.0)
ProgressValue(q) == (q.num * 100) \div q.den

\* update(overall_percent, current_deltas, initial_deltas)
UpdateHandler(overall) ==
    /\ motion_progress_widget' = ProgressValue(overall)
    /\ progress_log' = Append(progress_log, ProgressValue(overall))

\* finished_moving()
FinishedMovingHandler == motion_progress_frame' = FALSE

\* the progress callback at index is about to emit status_changed
WatchEmits(index) ==
    /\ wpc[index] = "computed"
    /\ Len(wloc[index].current_deltas) # 0
    /\ Len(wloc[index].initial_deltas) # 0
    /\ SumSeq(wloc[index].initial_deltas) # 0

\* positions an axis reports while the move runs: at target, on the way,
\* and twice as far from the target as it started
RunPositions(i) == {0, ScenarioCurrent[i], 2 * ScenarioInitial[i]}

FinishedDeliveredMutStopsOthers(index, success) ==
    /\ FinishedLocked(index)
    /\ axis_result' = [axis_result EXCEPT ![index] =
                          IF success THEN "success" ELSE "error"]
    /\ stop_log' = IF success THEN stop_log
                   ELSE [NoStop EXCEPT !.running = TRUE, !.conn = 1, !.idx = 1]
    /\ UNCHANGED <<stateVars, expert_mode, motion_progress_widget,
                   motion_progress_frame, motions, nrequests, conflictVars,
                   pruneVars, progress_log, ctor, check_out, extVars>>

\* the MoveStatus of axis index completes, with success or with an error,
\* and runs _finished_callback(index); the callback does not read the outcome
FinishedDelivered(index, success) ==
    /\ FinishedLocked(index)
    /\ axis_result' = [axis_result EXCEPT ![index] =
                          IF success THEN "success" ELSE "error"]
    /\ UNCHANGED <<stateVars, overviewVars, conflictVars, pruneVars,
                   progress_log, ctor, check_out, extVars>>

InitCancel ==
    /\ TrackerInit(Len(AxisNames))
    /\ StateQuiet /\ expert_mode = FALSE /\ PruneIdle
    /\ motion_progress_widget = 0
    /\ motion_progress_frame = TRUE
    /\ \E target \in Destinations :
          motions = <<[target |-> target, check |-> FALSE]>>
    /\ nrequests = 1
    /\ stop_log = NoStop
    /\ conflict = NoConflict
    /\ should_move = "none"
    /\ resolve_threads = <<>>
    /\ nresolve = 0
    /\ gui_queue = <<>>
    /\ writes = {}
    /\ failed_writes = {}
    /\ axis_result = [k \in 1..Len(AxisNames) |-> "moving"]
    /\ progress_log = <<0>>
    /\ ctor = NoCtor
    /\ check_out = <<>>
    /\ ExtIdle

RunWatch ==
    \E index \in Axes :
    \E current \in RunPositions(index) :
        /\ nwatch < MaxWatchRun
        /\ NoCallbackRunning
        /\ WatchLocked(index, None, Some(ScenarioInitial[index]),
                       Some(current), Some(0))
        /\ UNCHANGED <<stateVars, overviewVars, conflictVars, pruneVars,
                       auxVars, extVars>>

RunWatchStatus ==
    \E index \in Axes :
        /\ WatchEmitStatus(index)
        /\ IF WatchEmits(index)
           THEN UpdateHandler(status_changed'.overall)
           ELSE UNCHANGED <<motion_progress_widget, progress_log>>
        /\ UNCHANGED <<stateVars, expert_mode, motion_progress_frame, motions,
                       nrequests, stop_log, conflictVars, pruneVars,
                       axis_result, ctor, check_out, extVars>>

RunWatchFinished ==
    \E index \in Axes :
        /\ WatchEmitFinished(index)
        /\ FinishedMovingHandler
        /\ UNCHANGED <<stateVars, expert_mode, motion_progress_widget, motions,
                       nrequests, stop_log, conflictVars, pruneVars, auxVars,
                       extVars>>

RunFinLocked ==
    \E index \in Axes, success \in BOOLEAN :
        NoCallbackRunning /\ FinishedDelivered(index, success)

RunFinTest ==
    /\ \E index \in Axes : FinishedTest(index)
    /\ UNCHANGED <<stateVars, overviewVars, conflictVars, pruneVars, auxVars,
                   extVars>>

RunFinStatus ==
    \E index \in Axes :
        /\ FinishedEmitStatus(index)
        /\ UpdateHandler(RatOne)
        /\ UNCHANGED <<stateVars, expert_mode, motion_progress_frame, motions,
                       nrequests, stop_log, conflictVars, pruneVars,
                       axis_result, ctor, check_out, extVars>>

RunFinFinished ==
    \E index \in Axes :
        /\ FinishedEmitFinished(index)
        /\ FinishedMovingHandler
        /\ UNCHANGED <<stateVars, expert_mode, motion_progress_widget, motions,
                       nrequests, stop_log, conflictVars, pruneVars, auxVars,
                       extVars>>

\* the stop attempts of a click; here every st.device.stop() returns
RunStop == StopStep(TRUE)

NextCancel ==
    \/ RunWatch
    \/ RunWatchStatus
    \/ RunWatchFinished
    \/ RunFinLocked
    \/ RunFinTest
    \/ RunFinStatus
    \/ RunFinFinished
    \/ StopClick
    \/ RunStop

SpecCancel == InitCancel /\ [][NextCancel]_vars

---------------------------------------------------------------------------
\* SpecCtor: QCombinedMoveStatus(move_statuses) for every list of up to
\* MaxStatuses axis statuses, the registration loop taken one status at a time

\* the attribute assignments of __init__
CtorFields(arg) ==
    /\ move_statuses' = arg
    /\ initials' = [k \in 1..Len(arg) |-> 0]
    /\ targets' = [k \in 1..Len(arg) |-> 0]
    /\ currents' = [k \in 1..Len(arg) |-> 0]
    /\ percents' = [k \in 1..Len(arg) |-> 0]
    /\ finished_count' = 0
    /\ wpc' = [k \in 1..Len(arg) |-> "idle"]
    /\ wloc' = [k \in 1..Len(arg) |-> NoLocals]
    /\ fpc' = [k \in 1..Len(arg) |-> "pending"]
    /\ floc' = [k \in 1..Len(arg) |-> NoLocals]
    /\ UNCHANGED <<nwatch, status_changed, finished_moving>>

CtorCallMutAcceptsEmpty ==
    /\ ctor.pc = "new"
    /\ CtorFields(ctor.arg)
    /\ ctor' = [ctor EXCEPT !.pc = "loop", !.idx = 1]
    /\ UNCHANGED <<stateVars, overviewVars, conflictVars, pruneVars,
                   axis_result, progress_log, check_out, extVars>>

\* __init__ up to the registration loop: ValueError on an empty list
CtorCall ==
    /\ ctor.pc = "new"
    /\ IF ctor.arg = <<>>
       THEN /\ ctor' = [ctor EXCEPT !.pc = "raised"]
            /\ UNCHANGED trackerVars
       ELSE /\ CtorFields(ctor.arg)
            /\ ctor' = [ctor EXCEPT !.pc = "loop", !.idx = 1]
    /\ UNCHANGED <<stateVars, overviewVars, conflictVars, pruneVars,
                   axis_result, progress_log, check_out, extVars>>

\* one turn of "for idx, move_status in enumerate(self.move_statuses)"
CtorRegister ==
    /\ ctor.pc = "loop"
    /\ IF ctor.idx <= Len(move_statuses)
       THEN ctor' = [ctor EXCEPT
                       !.watchers = Append(@, [status |-> move_statuses[ctor.idx],
                                               index |-> ctor.idx]),
                       !.callbacks = Append(@, [status |-> move_statuses[ctor.idx],
                                                index |-> ctor.idx]),
                       !.idx = @ + 1]
       ELSE ctor' = [ctor EXCEPT !.pc = "done"]
    /\ UNCHANGED <<trackerVars, stateVars, overviewVars, conflictVars,
                   pruneVars, axis_result, progress_log, check_out, extVars>>

InitCtor ==
    /\ TrackerInit(0)
    /\ StateQuiet /\ expert_mode = FALSE /\ OverviewInit /\ PruneIdle
    /\ axis_result = <<>>
    /\ progress_log = <<>>
    /\ check_out = <<>>
    /\ \E arg \in SeqsUpTo({AxisNames[k] : k \in 1..Len(AxisNames)}, MaxStatuses) :
          ctor = [NoCtor EXCEPT !.pc = "new", !.arg = arg]
    /\ ExtIdle

NextCtor ==
    \/ CtorCall
    \/ CtorRegister

SpecCtor == InitCtor /\ [][NextCtor]_vars

---------------------------------------------------------------------------
\* SpecCheck: a conflict dialog open on any system state and refreshed
\* again and again while the state stays as it is

\* what the dialog holds and shows
Display(w) == [issues |-> w.issues, conflicts |-> w.conflicts_list,
               resolutions |-> w.resolution_list,
               apply_enabled |-> w.apply_enabled]

InitCheck ==
    /\ TrackerInit(0)
    /\ open_request \in [Sources -> {0, 1}]
    /\ destination_in_use \in BOOLEAN
    /\ data_valid \in BOOLEAN
    /\ maintenance_mode \in BOOLEAN
    /\ expert_mode = FALSE
    /\ motion_progress_widget = 0
    /\ motion_progress_frame = FALSE
    /\ motions = <<>>
    /\ nrequests = 1
    /\ stop_log = NoStop
    /\ \E dest \in Destinations : conflict = NewConflict(1, dest)
    /\ should_move = "none"
    /\ resolve_threads = <<>>
    /\ nresolve = 0
    /\ gui_queue = <<>>
    /\ writes = {}
    /\ failed_writes = {}
    /\ PruneIdle
    /\ axis_result = <<>>
    /\ progress_log = <<>>
    /\ ctor = NoCtor
    /\ check_out = <<Display(conflict)>>
    /\ ExtIdle

\* the Update button: _update_checks once more
Refresh ==
    /\ Len(check_out) <= MaxRefresh
    /\ conflict.shown /\ ~conflict.confirming
    /\ conflict' = UpdateChecks(conflict)
    /\ check_out' = Append(check_out, Display(conflict'))
    /\ UNCHANGED <<trackerVars, stateVars, overviewVars, should_move,
                   resolve_threads, nresolve, gui_queue, writes,
                   failed_writes, pruneVars, axis_result, progress_log, ctor,
                   extVars>>

NextCheck == Refresh

SpecCheck == InitCheck /\ [][NextCheck]_vars

---------------------------------------------------------------------------
\* Claims about QCombinedMoveStatus

AllFinishedDelivered ==
    /\ \A k \in Axes : fpc[k] = "done"
    /\ \A k \in Axes : wpc[k] = "idle"

\* C1: when every axis has delivered its finished callback once, under any
\* interleaving with the other callbacks, finished_moving has been emitted
\* exactly once over the life of the tracker.
C1_TerminalExactlyOnce ==
    AllFinishedDelivered => finished_moving = 1

InUnitInterval(q) == q.den > 0 /\ 0 <= q.num /\ q.num <= q.den

\* C5: every payload emitted on status_changed carries an overall fraction
\* in the closed interval [0, 1].
C5_OverallInUnitInterval ==
    status_changed.by # "none" => InUnitInterval(status_changed.overall)

\* the clip was needed: the current deltas sum to more than the initial ones
C5_Witness ==
    /\ status_changed.by = "watch"
    /\ SumSeq(status_changed.current_deltas)
         > SumSeq(status_changed.initial_deltas)
    /\ status_changed.overall.num = 0

\* 1 - clamp(scur / sinit, 0, 1) for sinit > 0, written out
ExpectedOverall(scur, sinit) ==
    IF scur >= sinit THEN Rat(0, 1) ELSE Rat(sinit - scur, sinit)

StateCurSum == SumSeq([k \in Axes |-> Abs(targets[k] - currents[k])])
StateInitSum == SumSeq([k \in Axes |-> Abs(targets[k] - initials[k])])

\* C6: a status_changed emission of a progress callback carries
\* 1 - clamp(S_cur / S_init, 0, 1) over the values most recently reported
\* by all axes (0 for an axis that has not reported); for initial deltas
\* [100, 50, 10] and current deltas [50, 50, 10] it carries 0.3125.
C6_WeightedAggregate ==
    [][ (status_changed' # status_changed /\ status_changed'.by = "watch") =>
          /\ status_changed'.current_deltas =
                [k \in Axes |-> Abs(targets[k] - currents[k])]
          /\ status_changed'.initial_deltas =
                [k \in Axes |-> Abs(targets[k] - initials[k])]
          /\ StateInitSum > 0
          /\ RatEq(status_changed'.overall,
                   ExpectedOverall(StateCurSum, StateInitSum))
          /\ (/\ status_changed'.initial_deltas = <<100, 50, 10>>
              /\ status_changed'.current_deltas = <<50, 50, 10>>)
                => RatEq(status_changed'.overall, Rat(3125, 10000)) ]_vars

C6_Witness ==
    /\ status_changed.by = "watch"
    /\ status_changed.initial_deltas = <<100, 50, 10>>
    /\ status_changed.current_deltas = <<50, 50, 10>>

---------------------------------------------------------------------------
\* Claims about move_request and the conflict dialog

IsExpertBypassable(c) ==
    c.kind = "PositionInvalidError" \/ c.kind = "MaintenanceModeActiveError"
IsNotExpertBypassable(c) == ~IsExpertBypassable(c)
IsSafetyBlocking(c) ==
    c.kind \in {"MovingActiveSource", "PathCrossedError", "DestinationInUseError"}

\* C2: move_request decides on one conflict check of the state it is called
\* in, filtered by the expert filter in expert mode only; a non-empty list
\* opens the conflict dialog for the target and issues no motion, an empty
\* list issues the motion at once.
C2_MoveRequestDecision ==
    [][ nrequests' # nrequests =>
          \E target \in Destinations :
            LET checked == CheckMoveAll(source_position, target)
                decided == IF expert_mode
                           THEN SelectSeq(checked, IsNotExpertBypassable)
                           ELSE checked
            IN  IF decided # <<>>
                THEN /\ motions' = motions
                     /\ conflict'.shown /\ conflict'.dest = target
                     /\ conflict'.gen = conflict.gen + 1
                ELSE /\ motions' = Append(motions, [target |-> target,
                                                    check |-> FALSE])
                     /\ conflict' = conflict ]_vars

\* expert mode made the difference: invalid data alone did not block
C2_Witness ==
    /\ expert_mode /\ ~data_valid
    /\ nrequests = 1 /\ Len(motions) = 1
    /\ conflict.gen = 0

\* C3: with conflicts listed, an answer other than Yes issues no motion and
\* leaves the dialog open; a motion issued from the dialog has either an
\* empty conflict list or the operator's Yes.
C3_OverrideNeedsYes ==
    [][ /\ (conflict.confirming /\ should_move' # "Yes") =>
              (motions' = motions /\ conflict'.shown)
        /\ (Len(motions') > Len(motions) /\ nrequests' = nrequests) =>
              /\ conflict.shown /\ ~conflict'.shown
              /\ \/ ~conflict.confirming /\ conflict.conflicts_list = <<>>
                 \/ conflict.confirming /\ should_move' = "Yes" ]_vars

\* the operator answered No: nothing moved and the dialog is still open
C3_Witness ==
    /\ should_move = "No"
    /\ conflict.shown /\ ~conflict.confirming
    /\ conflict.conflicts_list # <<>>
    /\ motions = <<>>

\* C4: prune_expert_issues removes the PositionInvalidError and
\* MaintenanceModeActiveError issues and nothing else, keeps order and
\* multiplicity of the rest, and is idempotent.
C4_PruneRemovesExactly ==
    Len(prune_out) >= 1 =>
        /\ \A k \in 1..Len(prune_out[1]) : ~IsExpertBypassable(prune_out[1][k])
        /\ SelectSeq(prune_out[1], IsSafetyBlocking)
             = SelectSeq(prune_in, IsSafetyBlocking)
        /\ prune_out[1] = SelectSeq(prune_in, IsNotExpertBypassable)
        /\ Len(prune_out) = 2 => prune_out[2] = prune_out[1]

C4_Witness ==
    /\ Len(prune_out) = 2 /\ Len(prune_in) = 2
    /\ prune_in[1].kind = "PositionInvalidError"
    /\ prune_in[2].kind = "PathCrossedError"
    /\ prune_out[1] = <<prune_in[2]>>

\* the step is one turn of the fix loop of resolution thread t
IsFixStep(t) ==
    /\ t \in 1..Len(resolve_threads)
    /\ resolve_threads[t].idx <= Len(resolve_threads[t].issues)
    /\ nresolve' = nresolve
    /\ \/ resolve_threads' =
             [resolve_threads EXCEPT ![t].idx = resolve_threads[t].idx + 1]
       \/ resolve_threads' = Without(resolve_threads, t)

ExpectedPuts(c) ==
    IF c.kind = "MovingActiveSource"
    THEN {[source |-> source_position, signal |-> "open_request", value |-> 0]}
    ELSE IF c.kind = "PathCrossedError"
    THEN {[source |-> c.crosses_source, signal |-> "open_request", value |-> 0]}
    ELSE {}

\* C7: fixing MovingActiveSource writes a close request for the requesting
\* source, fixing PathCrossedError one for the crossing source it names and
\* no other, and fixing any other issue writes nothing; the issue list of
\* the dialog is left as it is.
C7_FixIssueWrites ==
    [][ \A t \in 1..Len(resolve_threads) :
          IsFixStep(t) =>
            LET c == resolve_threads[t].issues[resolve_threads[t].idx]
            IN  /\ writes' = writes \cup ExpectedPuts(c)
                /\ \A s \in Sources :
                      open_request'[s] # open_request[s] =>
                        /\ open_request'[s] = 0
                        /\ \E w \in ExpectedPuts(c) : w.source = s
                /\ conflict' = conflict ]_vars

\* only the crossing source 3 was written, and closed
C7_Witness ==
    /\ writes = {[source |-> 3, signal |-> "open_request", value |-> 0]}
    /\ failed_writes = {}
    /\ open_request[3] = 0
    /\ resolve_threads = <<>> /\ nresolve = 1

\* C8: a resolution thread ends only after a fix was attempted for every
\* issue of its list, and ends by posting the re-check to the GUI thread.
C8_ResolutionEndsInRecheck ==
    [][ \A t \in 1..Len(resolve_threads) :
          (nresolve' = nresolve /\ resolve_threads' = Without(resolve_threads, t))
            => /\ resolve_threads[t].idx > Len(resolve_threads[t].issues)
               /\ gui_queue' = Append(gui_queue, resolve_threads[t].gen) ]_vars

\* C9: when the close write of one issue raises, the thread goes on with
\* the next issue of its list.
C9_WriteFailureIsolated ==
    [][ failed_writes' # failed_writes =>
          \E t \in 1..Len(resolve_threads) :
            resolve_threads' =
              [resolve_threads EXCEPT ![t].idx = resolve_threads[t].idx + 1] ]_vars

---------------------------------------------------------------------------
\* Claims about stop_all

StopFinished == ~stop_log.running /\ stop_log.conn >= 1

\* C10: a click on Stop attempts a stop on every axis of every move, in
\* order, whether or not earlier attempts raised; every failure is logged
\* and none is propagated.
C10_StopAllIsolated ==
    /\ ~stop_log.propagated
    /\ stop_log.logged = stop_log.failed
    /\ StopFinished =>
          stop_log.attempted =
            [k \in 1..(Len(motions) * Len(AxisNames)) |->
                AxisNames[((k - 1) % Len(AxisNames)) + 1]]

\* the stop of the first axis raised and the others were still attempted
C10_Witness ==
    /\ StopFinished
    /\ stop_log.failed # <<>> /\ stop_log.failed[1] = AxisNames[1]
    /\ Len(stop_log.attempted) = Len(motions) * Len(AxisNames)

---------------------------------------------------------------------------
\* Claims about a running move and its cancellation

\* C11: once a click on Stop has issued its stop commands, the overview
\* widget has left the moving state: the progress frame is hidden.
C11_StopLeavesMoving ==
    StopFinished => ~motion_progress_frame

\* C12: once a move has been stopped, progress and finished callbacks that
\* still arrive emit nothing and change nothing of the displayed progress.
C12_CallbacksAfterStopAreNoOps ==
    [][ StopFinished =>
          /\ status_changed' = status_changed
          /\ finished_moving' = finished_moving
          /\ motion_progress_widget' = motion_progress_widget
          /\ motion_progress_frame' = motion_progress_frame ]_vars

---------------------------------------------------------------------------
\* Claims about the construction of QCombinedMoveStatus

Registrations(arg) == [k \in 1..Len(arg) |-> [status |-> arg[k], index |-> k]]

\* C13: constructing the tracker over an empty list raises ValueError with
\* no callback registered; over a non-empty list the construction ends
\* with one progress watcher and one finished callback per status.
C13_CtorNeedsStatus ==
    /\ (ctor.pc \notin {"none", "new"} /\ ctor.arg = <<>>) =>
          /\ ctor.pc = "raised"
          /\ ctor.watchers = <<>> /\ ctor.callbacks = <<>>
    /\ ctor.pc = "raised" => ctor.arg = <<>>
    /\ ctor.pc = "done" =>
          /\ ctor.watchers = Registrations(ctor.arg)
          /\ ctor.callbacks = Registrations(ctor.arg)

C13_Witness ==
    /\ ctor.pc = "raised"
    /\ ctor.arg = <<>>
    /\ ctor.watchers = <<>> /\ ctor.callbacks = <<>>

---------------------------------------------------------------------------
\* Claims about the system state and the expert filter

\* C14: the system state changes only in a step of the fix loop of a
\* resolution thread, and then only by a source's open_request becoming 0;
\* every write attempted is a close request on a source.
C14_OnlyCloseWrites ==
    [][ /\ (stateVars' # stateVars \/ writes' # writes) =>
              \E t \in 1..Len(resolve_threads) : IsFixStep(t)
        /\ destination_in_use' = destination_in_use
        /\ data_valid' = data_valid
        /\ maintenance_mode' = maintenance_mode
        /\ \A s \in Sources :
              open_request'[s] # open_request[s] => open_request'[s] = 0
        /\ \A w \in writes' :
              w.signal = "open_request" /\ w.value = 0 /\ w.source \in Sources
      ]_vars

\* the own shutter was closed as a remediation and the move then issued
C14_Witness ==
    /\ Put(source_position, 0) \in writes
    /\ open_request[source_position] = 0
    /\ Len(motions) = 1

\* C15: in expert mode the issue list the conflict dialog holds and displays
\* has no PositionInvalidError and no MaintenanceModeActiveError.
C15_ExpertDialogFiltered ==
    (expert_mode /\ conflict.shown) =>
        \A k \in 1..Len(conflict.issues) : ~IsExpertBypassable(conflict.issues[k])

\* C16: refreshing the conflict dialog while the system state is as it was
\* changes nothing of the system state and leaves the issue list, the
\* displayed conflicts, the displayed resolutions and the enabled state of
\* the apply-resolution button as the previous refresh left them.
C16_RefreshIdempotent ==
    [][ check_out' # check_out =>
          /\ stateVars' = stateVars
          /\ writes' = writes
          /\ check_out'[Len(check_out')] = check_out[Len(check_out)]
          /\ Display(conflict') = Display(conflict) ]_vars

\* refreshed twice after its construction, with conflicts and a resolution
C16_Witness ==
    /\ Len(check_out) = 3
    /\ check_out[3].conflicts # <<>>
    /\ check_out[3].resolutions # <<>>
    /\ check_out[3].apply_enabled
    /\ check_out[3] = check_out[1]

HasKind(issues, kind) == \E k \in 1..Len(issues) : issues[k].kind = kind

\* C17: the check of a source whose shutter is open lists
\* MovingActiveSource for every destination, and a move request of such a
\* source issues no motion but opens the conflict dialog, in expert mode
\* as in non-expert mode.
C17_OpenShutterBlocks ==
    [][ /\ \A s \in Sources, d \in Destinations :
              open_request[s] = 1 =>
                  HasKind(CheckMoveAll(s, d), "MovingActiveSource")
        /\ (nrequests' # nrequests /\ open_request[source_position] = 1) =>
              /\ motions' = motions
              /\ conflict'.shown /\ conflict'.gen = conflict.gen + 1
              /\ HasKind(conflict'.issues, "MovingActiveSource") ]_vars

\* an expert request with the shutter open and only bypassable issues
\* besides: it is blocked all the same
C17_Witness ==
    /\ expert_mode /\ open_request[source_position] = 1
    /\ ~data_valid /\ ~destination_in_use
    /\ \A s \in Sources \ {source_position} : open_request[s] = 0
    /\ nrequests = 1 /\ motions = <<>>
    /\ conflict.shown /\ conflict.gen = 1

---------------------------------------------------------------------------
\* Claims about axis failures and regressing progress

RatLess(q, r) == q.num * r.den < r.num * q.den

---------------------------------------------------------------------------
\* Claims about the atomicity of the finished-callback path

FinishedEmitters == {k \in Axes : fpc[k] \in {"emit_status", "emit_finished"}}

\* C20: while a finished callback is between its increment of the finished
\* count and its test of it, no other callback changes the count, and at
\* most one finished callback goes on to the terminal emission.
C20_IncrementAndTestAtomic ==
    [][ /\ \A k \in Axes : fpc[k] = "test" => finished_count' = finished_count
        /\ Cardinality(FinishedEmitters') <= 1 ]_vars

---------------------------------------------------------------------------
\* Claims about the terminal event and the state of the tracker

\* C21: finished_moving has been emitted only if every axis has delivered
\* its finished callback.
C21_TerminalOnlyAfterAllFinished ==
    finished_moving > 0 => \A k \in Axes : fpc[k] # "pending"

HasFinished(k) == fpc[k] # "pending"

\* C23: an axis whose finished callback has run has its fraction at 1.0
\* and contributes nothing to the current deltas of any later aggregate.
C23_FinishedAxisForcedComplete ==
    \A k \in Axes :
        HasFinished(k) =>
            /\ percents[k] = 1
            /\ CurrentDeltas(currents, targets)[k] = 0

AllFinishedReturned == \A k \in Axes : fpc[k] = "done"

\* C24: once every finished callback has returned, the last of them having
\* made the all-finished emission, every later status_changed carries an
\* overall fraction of 1.0.
C24_NothingBelowOneAfterTerminal ==
    [][ (NAxes >= 1 /\ AllFinishedReturned /\ status_changed' # status_changed)
          => RatEq(status_changed'.overall, RatOne) ]_vars

\* only entry index of the tuple may differ, and it is either what it was
\* (no argument given) or the argument, one of args
OnlyEntry(old, new, index, args) ==
    /\ DOMAIN new = DOMAIN old
    /\ \A j \in DOMAIN old : j # index => new[j] = old[j]
    /\ \E arg \in Opt(args) :
          new[index] = IF arg = <<>> THEN old[index] ELSE arg[1]

\* C25: a progress callback for axis i changes only entry i of initials,
\* targets, currents and percents, each only when its argument is given,
\* and not the finished count; a finished callback adds exactly 1 to the
\* finished count and changes no per-axis entry; the count stays in 0..N.
C25_CallbackFrames ==
    [][ /\ nwatch' # nwatch =>
              /\ finished_count' = finished_count
              /\ \E index \in Axes :
                      /\ OnlyEntry(initials, initials', index, Positions)
                      /\ OnlyEntry(targets, targets', index, Positions)
                      /\ OnlyEntry(currents, currents', index, Positions)
                      /\ OnlyEntry(percents, percents', index, Fractions)
        /\ finished_count' # finished_count =>
              /\ finished_count' = finished_count + 1
              /\ <<initials, targets, currents, percents>>'
                   = <<initials, targets, currents, percents>>
        /\ nwatch' = nwatch =>
              <<initials, targets, currents, percents>>'
                = <<initials, targets, currents, percents>>
        /\ finished_count' \in 0..NAxes ]_vars

\* two axes: the first reported an initial position only, the second a
\* current position only, and one of them has finished
C25_Witness ==
    /\ NAxes = 2
    /\ initials = <<1, 0>> /\ currents = <<0, 1>>
    /\ targets = <<0, 0>> /\ percents = <<0, 0>>
    /\ finished_count = 1

---------------------------------------------------------------------------
\* A tracked move whose callbacks race (ophyd runs the callbacks of each
\* status on its own; nothing but self.lock orders them)

\* the state on return of _perform_move, over one or two axes
InitLive ==
    /\ \E n \in AxisCounts :
          /\ TrackerInit(n)
          /\ axis_result = [k \in 1..n |-> "moving"]
    /\ StateQuiet /\ expert_mode = FALSE /\ PruneIdle
    /\ motion_progress_widget = 0
    /\ motion_progress_frame = TRUE
    /\ \E target \in Destinations :
          motions = <<[target |-> target, check |-> FALSE]>>
    /\ nrequests = 1
    /\ stop_log = NoStop
    /\ conflict = NoConflict
    /\ should_move = "none"
    /\ resolve_threads = <<>>
    /\ nresolve = 0
    /\ gui_queue = <<>>
    /\ writes = {}
    /\ failed_writes = {}
    /\ progress_log = <<0>>
    /\ ctor = NoCtor
    /\ check_out = <<>>
    /\ ExtIdle

\* a progress callback of some axis enters its locked block at any time
LiveWatch ==
    \E index \in Axes :
    \E current \in RunPositions(index) :
        /\ nwatch < MaxWatchLive
        /\ WatchLocked(index, None, Some(ScenarioInitial[index]),
                       Some(current), Some(0))
        /\ UNCHANGED <<stateVars, overviewVars, conflictVars, pruneVars,
                       auxVars, extVars>>

\* the finished callback of some axis enters its locked block at any time;
\* the callback does not read the outcome, every move here succeeds
LiveFinLocked ==
    \E index \in Axes : FinishedDelivered(index, TRUE)

NextLive ==
    \/ LiveWatch
    \/ RunWatchStatus
    \/ RunWatchFinished
    \/ LiveFinLocked
    \/ RunFinTest
    \/ RunFinStatus
    \/ RunFinFinished

\* a callback that has left its locked block runs to its end: it takes no
\* lock and waits for nothing, and the queued signal is delivered by the
\* running event loop
SpecLive ==
    /\ InitLive /\ [][NextLive]_vars
    /\ WF_vars(RunWatchStatus) /\ WF_vars(RunWatchFinished)
    /\ WF_vars(RunFinTest) /\ WF_vars(RunFinStatus) /\ WF_vars(RunFinFinished)

AllFinishedEntered == \A k \in Axes : HasFinished(k)

FinishedEntered == {k \in Axes : HasFinished(k)}

TerminalShown ==
    /\ finished_moving >= 1
    /\ motion_progress_frame = FALSE
    /\ \E j \in DOMAIN progress_log : progress_log[j] = 100

\* C22: when every axis has delivered its finished callback, under every
\* interleaving of progress and finished callbacks finished_moving and
\* status_changed(1.0) are eventually emitted and the progress frame is
\* eventually hidden; no increment of the finished count is lost.
C22_AllFinishedLeadsToTerminal ==
    /\ [](finished_count = Cardinality(FinishedEntered))
    /\ AllFinishedEntered ~> TerminalShown

\* both finished callbacks returned, the first without emitting, and a
\* progress callback ran in between
C22_Witness ==
    /\ NAxes = 2
    /\ AllFinishedReturned
    /\ nwatch >= 1
    /\ finished_count = 2
    /\ TerminalShown

---------------------------------------------------------------------------
\* SpecStale: one overview widget and its conflict dialog while the control
\* system changes the state the conflict check reads

InitStale == InitMove

\* a signal read by check_move_all takes a new value: a shutter request of
\* another source, the destination in use, the position data, maintenance
ExternalChange ==
    /\ nexternal < MaxExternal
    /\ nexternal' = nexternal + 1
    /\ \/ /\ \E s \in Sources \ {source_position} :
               open_request' = [open_request EXCEPT ![s] = 1 - @]
          /\ UNCHANGED <<destination_in_use, data_valid, maintenance_mode>>
       \/ /\ destination_in_use' = ~destination_in_use
          /\ UNCHANGED <<open_request, data_valid, maintenance_mode>>
       \/ /\ data_valid' = ~data_valid
          /\ UNCHANGED <<open_request, destination_in_use, maintenance_mode>>
       \/ /\ maintenance_mode' = ~maintenance_mode
          /\ UNCHANGED <<open_request, destination_in_use, data_valid>>
    /\ UNCHANGED <<trackerVars, overviewVars, conflictVars, pruneVars,
                   auxVars, superseded, homing>>

NextStale ==
    \/ Request
    \/ Move
    \/ Confirm
    \/ UpdateButton
    \/ ExternalChange

SpecStale == InitStale /\ [][NextStale]_vars

\* the issues that block a move to target in the present state
BlockingNow(target) ==
    LET checked == CheckMoveAll(source_position, target)
    IN  IF expert_mode THEN PruneExpertIssues(checked) ELSE checked

\* C26: a motion issued without the operator's Yes is decided on a check
\* of the state at the moment it is sent, and that check lists no blocking
\* issue: neither move_request nor the dialog's Move uses an older list.
C26_MotionOnFreshCheck ==
    [][ (Len(motions') > Len(motions) /\ ~conflict.confirming)
          => BlockingNow(motions'[Len(motions')].target) = <<>> ]_vars

---------------------------------------------------------------------------
\* SpecSupersede: a second move of the source is issued while the tracker
\* of the first is still connected to the progress widgets

\* move_request(target) in a quiet state, hence _perform_move(target), while
\* an earlier move is tracked: self._move_status is rebound to a new tracker,
\* nothing is disconnected, and the statuses of the earlier move keep their
\* callbacks into the earlier tracker. The tracker variables stay those of
\* the earlier tracker; the new move has not reported yet.
IssueNext ==
    \E target \in Destinations :
        /\ ~superseded
        /\ CheckMoveAll(source_position, target) = <<>>
        /\ superseded' = TRUE
        /\ motion_progress_widget' = 0
        /\ motions' = Append(motions, [target |-> target, check |-> FALSE])
        /\ motion_progress_frame' = TRUE
        /\ nrequests' = nrequests + 1
        /\ UNCHANGED <<trackerVars, stateVars, expert_mode, stop_log,
                       conflictVars, pruneVars, auxVars, nexternal, homing>>

NextSupersede ==
    \/ RunWatch
    \/ RunWatchStatus
    \/ RunWatchFinished
    \/ RunFinLocked
    \/ RunFinTest
    \/ RunFinStatus
    \/ RunFinFinished
    \/ IssueNext

SpecSupersede == InitCancel /\ [][NextSupersede]_vars

\* C27: while the latest move has not finished (here it has not reported
\* at all), its progress frame stays visible and the value shown is its
\* own, 0; signals of the superseded tracker change neither.
C27_LatestMoveOwnsProgress ==
    superseded => (motion_progress_frame = TRUE /\ motion_progress_widget = 0)

---------------------------------------------------------------------------
\* HomingThread and its three routines, with the cancel handler of
\* BtmsHomingScreen; one thread of one kind is followed from start() on

HomingKinds == {"linear", "rotary", "goniometer"}

\* readbacks of the linear stage after a home, in mm
LinearPositions == {0, 9, 10, 20, 21}
\* readbacks of the rotary stage after a home, in 1/1000
RotaryPositions == {0, 10, 500}

\* range(loop_counter) of the linear routine, range(2) of the rotary one
LoopCount(kind) == IF kind = "linear" THEN 3 ELSE 2

\* _linear_pos_valid: 9.0 < abs(pos1 - pos2) and abs(pos1 - pos2) < 11.0
LinearPosValid(pos1, pos2) ==
    9 < Abs(pos1 - pos2) /\ Abs(pos1 - pos2) < 11

\* _rotary_pos_valid: False when -0.010 < abs(pos) and abs(pos) < 0.010
RotaryPosValid(pos) == ~(-10 < Abs(pos) /\ Abs(pos) < 10)

\* "if self.needs_calib:" names the method and does not call it: a bound
\* method is true whatever the signal reads
NeedsCalibTest(h) == TRUE

Running(h) == h.pc \notin {"idle", "done", "died"}

HomingFrame ==
    UNCHANGED <<trackerVars, stateVars, overviewVars, conflictVars,
                pruneVars, auxVars, nexternal, superseded>>

InitHoming ==
    /\ TrackerInit(0)
    /\ StateQuiet /\ expert_mode = FALSE /\ OverviewInit /\ PruneIdle
    /\ AuxIdle
    /\ nexternal = 0
    /\ superseded = FALSE
    /\ \E kind \in HomingKinds, needs \in BOOLEAN :
          homing = [NoHoming EXCEPT !.kind = kind, !.needs_calib = needs]

\* _perform_home: thread.start()
HomingStart ==
    /\ homing.pc = "idle"
    /\ homing' = [homing EXCEPT !.pc = "calib_test"]
    /\ HomingFrame

\* run: "if self.needs_calib: self.calibrate()", up to do_calib.put(1);
\* when the test is false, on to velocity.put(0.0)
HomingCalibTest ==
    /\ homing.pc = "calib_test"
    /\ homing' = IF NeedsCalibTest(homing)
                 THEN [homing EXCEPT !.pc = "calib_wait", !.calibs = @ + 1]
                 ELSE [homing EXCEPT !.pc = "loop"]
    /\ HomingFrame

\* calibrate: _wait_for_value(...) returns or raises; then velocity.put(0.0)
HomingCalibWait ==
    /\ homing.pc = "calib_wait"
    /\ \E raises \in BOOLEAN :
          homing' = [homing EXCEPT !.pc = IF raises THEN "died" ELSE "loop"]
    /\ HomingFrame

\* the head of a loop turn: "if not self.stopped():" and the home command;
\* the goniometer routine has no loop and no test of stopped()
HomingLoop ==
    /\ homing.pc = "loop"
    /\ homing' =
         IF homing.kind = "goniometer"
            \/ (homing.i < LoopCount(homing.kind) /\ ~homing.stopper)
         THEN [homing EXCEPT !.pc = "wait", !.st = "active",
                             !.homes = @ + 1]
         ELSE [homing EXCEPT !.pc = "after"]
    /\ HomingFrame

\* self._st.wait() raises: the status holds an exception (set by stop(),
\* or by the timeout or a failure of the move)
HomingWaitRaises ==
    /\ homing.pc = "wait"
    /\ homing' = [homing EXCEPT !.pc = "died", !.st = "exc"]
    /\ HomingFrame

\* self._st.wait() returns and the linear routine reads the result
HomingWaitLinear ==
    /\ homing.pc = "wait" /\ homing.st = "active"
    /\ homing.kind = "linear"
    /\ \E homed \in BOOLEAN, pos \in LinearPositions :
          homing' =
            IF homed
            THEN [homing EXCEPT !.st = "done", !.pc = "loop", !.i = @ + 1,
                                !.lin_pos = Append(@, pos)]
            ELSE IF homing.forward
            THEN [homing EXCEPT !.st = "done", !.pc = "loop", !.i = @ + 1,
                                !.forward = FALSE]
            ELSE [homing EXCEPT !.st = "done", !.pc = "after"]
    /\ HomingFrame

\* self._st.wait() returns and the rotary routine reads the result
HomingWaitRotary ==
    /\ homing.pc = "wait" /\ homing.st = "active"
    /\ homing.kind = "rotary"
    /\ \E homed \in BOOLEAN, pos \in RotaryPositions :
          homing' =
            IF homed /\ RotaryPosValid(pos)
            THEN [homing EXCEPT !.st = "done", !.pc = "emit",
                                !.success = TRUE]
            ELSE [homing EXCEPT !.st = "done", !.pc = "loop", !.i = @ + 1,
                                !.forward = FALSE]
    /\ HomingFrame

\* self._st.wait() returns and the goniometer routine reads the result
HomingWaitGoniometer ==
    /\ homing.pc = "wait" /\ homing.st = "active"
    /\ homing.kind = "goniometer"
    /\ \E homed \in BOOLEAN :
          homing' = [homing EXCEPT !.st = "done", !.pc = "emit",
                                   !.success = homed]
    /\ HomingFrame

\* after the loop. Linear: "if not self.stopped(): if all([valid(lin_pos[0],
\* lin_pos[1]), valid(lin_pos[1], lin_pos[2])]): self.success()"; an index
\* past the end of lin_pos raises IndexError and ends run()
HomingAfter ==
    /\ homing.pc = "after"
    /\ homing' =
         IF homing.kind # "linear" \/ homing.stopper
         THEN [homing EXCEPT !.pc = "emit"]
         ELSE IF Len(homing.lin_pos) < 3
         THEN [homing EXCEPT !.pc = "died"]
         ELSE [homing EXCEPT !.pc = "emit",
                  !.success = /\ LinearPosValid(homing.lin_pos[1],
                                                homing.lin_pos[2])
                              /\ LinearPosValid(homing.lin_pos[2],
                                                homing.lin_pos[3])]
    /\ HomingFrame

\* self._finished.emit(), the last statement of run()
HomingEmit ==
    /\ homing.pc = "emit"
    /\ homing' = [homing EXCEPT !.pc = "done", !.finished = @ + 1]
    /\ HomingFrame

\* _cancel_handler: thread.stop() when thread.isRunning(), dev.stop() when
\* dev.moving. stop() sets the exception of self._st when there is one and
\* then self._stopper; on a status that is done already set_exception
\* either has no effect or raises, and then neither the flag is set nor
\* the rest of the handler runs
CancelHandler ==
    /\ homing.cancels < MaxCancel
    /\ \E raises \in BOOLEAN :
          homing' =
            IF ~Running(homing)
            THEN [homing EXCEPT !.cancels = @ + 1]
            ELSE IF homing.st = "done" /\ raises
            THEN [homing EXCEPT !.cancels = @ + 1]
            ELSE [homing EXCEPT
                    !.cancels = @ + 1,
                    !.stopper = TRUE,
                    !.st = IF @ = "active" THEN "exc" ELSE @,
                    !.dev_stops = IF homing.st = "active" THEN @ + 1 ELSE @]
    /\ HomingFrame

NextHoming ==
    \/ HomingStart
    \/ HomingCalibTest
    \/ HomingCalibWait
    \/ HomingLoop
    \/ HomingWaitRaises
    \/ HomingWaitLinear
    \/ HomingWaitRotary
    \/ HomingWaitGoniometer
    \/ HomingAfter
    \/ HomingEmit
    \/ CancelHandler

SpecHoming == InitHoming /\ [][NextHoming]_vars

\* C28: once stop() has been called on a homing thread, the thread sends
\* no further home command and does not afterwards mark itself succeeded.
C28_StoppedThreadHomesNoMore ==
    [][ homing.stopper =>
          /\ homing'.homes = homing.homes
          /\ homing'.success => homing.success ]_vars

\* C29: every run of a homing thread ends by emitting _finished exactly
\* once, and the linear routine reports success only with three positions
\* whose successive differences lie strictly between 9 and 11.
C29_RunEndsWithFinished ==
    /\ homing.pc \in {"done", "died"} => homing.finished = 1
    /\ (homing.kind = "linear" /\ homing.success) =>
          /\ Len(homing.lin_pos) = 3
          /\ \A j \in 1..2 :
                LET d == Abs(homing.lin_pos[j] - homing.lin_pos[j + 1])
                IN  9 < d /\ d < 11

\* C30: the calibration command is sent only when needs_calib reads true.
C30_CalibrationOnlyWhenNeeded ==
    [][ homing'.calibs > homing.calibs => homing.needs_calib ]_vars

===========================================================================
